---- MODULE Spec2Model ----
(***************************************************************************)
(* Model of src/src/run-impl.ts: one invocation of fuzz(), which runs a    *)
(* fuzz campaign and, on a non-zero exit, drives generateReport:           *)
(* getNewCorpus -> getRepositoryId -> getPackageName -> getHeadRef ->      *)
(* createBranch -> re-run -> readFile -> git restore -> unlink.            *)
(*                                                                         *)
(* Every await of the source is one action; the synchronous code that      *)
(* follows an await belongs to the action of that await.  A JavaScript     *)
(* string is a sequence of one-character strings, so split, startsWith,    *)
(* trim and template concatenation are computed, not assumed.  A value     *)
(* that may be undefined is a sequence of length 0 (undefined) or 1.       *)
(*                                                                         *)
(* path.sep is "/" (a POSIX runner), the separator git itself prints.      *)
(***************************************************************************)
EXTENDS Integers, Sequences, FiniteSets, TLC

VARIABLES
    pc,             \* position of the run inside fuzz()/generateReport
    worktree,       \* working-tree changes against HEAD: path index -> "A" | "M" | "D"
    index,          \* staged changes against HEAD:       path index -> "A" | "M" | "D"
    head,           \* the commit HEAD points at
    prefix,         \* options.headBranchPrefix
    exitCode,       \* exit code of the fuzz subprocess (line 24), <<>> before it ran
    corpus,         \* value of `corpus` in generateReport (line 59)
    repoResponse,   \* the response postJson resolved with in getRepositoryId
    repositoryId,   \* value of `repositoryId` (line 71)
    goListStdout,   \* output.stdout of `go list` (line 163)
    packageName,    \* line 75
    testFunc,       \* line 77
    testCorpus,     \* line 78
    branchName,     \* line 79
    oid,            \* line 80
    sent,           \* createRef inputs handed to postJson (line 191), in order
    publish,        \* how the createRef request ended: "none" | "ok" | "rejected" | "throw"
    rerunSelector,  \* the -run= argument of the re-run (line 83)
    trace           \* subprocesses started and requests sent, in order, with exit codes

vars == <<pc, worktree, index, head, prefix, exitCode, corpus, repoResponse,
          repositoryId, goListStdout, packageName, testFunc, testCorpus,
          branchName, oid, sent, publish, rerunSelector, trace>>

-----------------------------------------------------------------------------
(* Bounds *)

\* at most this many paths differ from HEAD in the working tree
MaxChanged == 3

-----------------------------------------------------------------------------
(* Strings *)

Undefined == << >>
Some(x) == << x >>

S_testdata == <<"t","e","s","t","d","a","t","a">>
S_fuzz == <<"f","u","z","z">>
S_Fuzz == <<"F","u","z","z">>
S_FuzzParse == <<"F","u","z","z","P","a","r","s","e">>
S_fuzzParse == <<"f","u","z","z","P","a","r","s","e">>
S_FuzzX == <<"F","u","z","z","X">>
S_pkg == <<"p","k","g">>
S_sub == <<"s","u","b">>
S_a1b2c3 == <<"a","1","b","2","c","3">>
S_a1 == <<"a","1">>
S_d4 == <<"d","4">>
S_e5 == <<"e","5">>
S_x == <<"x">>
S_maingo == <<"m","a","i","n",".","g","o">>
S_refsheads == <<"r","e","f","s","/","h","e","a","d","s","/">>
S_fz == <<"f","z">>
S_mod == <<"m","o","d">>

\* the paths that may differ from HEAD, each as its directory segments, in the
\* byte order git lists them in
PathSegs ==
    << <<S_fuzz, S_FuzzParse, S_a1>>,
       <<S_maingo>>,
       <<S_pkg, S_testdata, S_fuzz, S_FuzzParse, S_a1b2c3>>,
       <<S_pkg, S_testdata, S_fuzz, S_FuzzParse, S_d4>>,
       <<S_pkg, S_testdata, S_fuzz, S_FuzzParse, S_sub, S_x>>,
       <<S_pkg, S_testdata, S_fuzz, S_fuzzParse, S_a1>>,
       <<S_testdata, S_fuzz, S_FuzzX, S_e5>> >>

NPaths == Len(PathSegs)

RECURSIVE Join(_, _)
Join(segs, sep) ==
    IF segs = << >> THEN << >>
    ELSE IF Len(segs) = 1 THEN segs[1]
    ELSE segs[1] \o <<sep>> \o Join(Tail(segs), sep)

\* the name git prints for path i: its segments joined by "/"
PathName(i) == Join(PathSegs[i], "/")

\* String.prototype.split with a one-character separator: the pieces between
\* consecutive occurrences of sep; k occurrences give k + 1 pieces, so "" gives [""]
Split(s, sep) ==
    LET at == {i \in 1..Len(s) : s[i] = sep}
        \* position of the k-th occurrence; 0 before the first, Len(s) + 1 after the last
        Cut(k) == IF k = 0 THEN 0
                  ELSE IF k > Cardinality(at) THEN Len(s) + 1
                  ELSE CHOOSE p \in at : Cardinality({q \in at : q < p}) = k - 1
    IN  [k \in 1..(Cardinality(at) + 1) |-> SubSeq(s, Cut(k - 1) + 1, Cut(k) - 1)]

\* String.prototype.startsWith
StartsWith(s, p) == Len(s) >= Len(p) /\ SubSeq(s, 1, Len(p)) = p

WhiteSpace == {" ", "\n", "\t", "\r"}

RECURSIVE TrimStart(_)
TrimStart(s) ==
    IF s # << >> /\ Head(s) \in WhiteSpace THEN TrimStart(Tail(s)) ELSE s

RECURSIVE TrimEnd(_)
TrimEnd(s) ==
    IF s # << >> /\ s[Len(s)] \in WhiteSpace
    THEN TrimEnd(SubSeq(s, 1, Len(s) - 1)) ELSE s

\* String.prototype.trim
Trim(s) == TrimEnd(TrimStart(s))

-----------------------------------------------------------------------------
(* Inputs *)

NoChanges == [i \in {} |-> "A"]

\* the change sets the working tree may show when the fuzz subprocess ends
Worktrees ==
    UNION { [S -> {"A", "M", "D"}] :
            S \in {T \in SUBSET (1..NPaths) : Cardinality(T) <= MaxChanged} }

Commits == { <<"c","1">>, <<"c","2">> }

Prefixes == { S_fuzz, S_fz }

\* what `go list` may print: one import path and a newline
GoListOutputs == { S_pkg \o <<"\n">>, S_mod \o <<"/">> \o S_pkg \o <<"\n">> }

\* the bodies postJson may resolve with for the repository query
RepoResponses ==
    { [result |-> Undefined],
      [result |-> Some([data |-> Undefined])],
      [result |-> Some([data |-> Some([repository |-> Undefined])])],
      [result |-> Some([data |-> Some([repository |-> Some([id |-> Undefined])])])],
      [result |-> Some([data |-> Some([repository |-> Some([id |-> Some("R_1")])])])] }

-----------------------------------------------------------------------------
(* Pure parts of the source *)

\* the filter without its startsWith test (line 117)
IsCorpusPath_AnyDirectory(file) ==
    LET segments == Split(file, "/")
        n == Len(segments)
    IN  /\ n >= 4
        /\ segments[n - 3] = S_testdata
        /\ segments[n - 2] = S_fuzz

\* the callback of filter, lines 110-120
IsCorpusPath(file) ==
    LET segments == Split(file, "/")
        n == Len(segments)
    IN  /\ n >= 4
        /\ segments[n - 3] = S_testdata
        /\ segments[n - 2] = S_fuzz
        /\ StartsWith(segments[n - 1], S_Fuzz)

\* stdout of `git diff --name-only --cached --no-renames --diff-filter=d`:
\* every staged path whose status is not Deleted, one per line
RECURSIVE NameOnlyFrom(_, _)
NameOnlyFrom(idx, i) ==
    IF i > NPaths THEN << >>
    ELSE (IF i \in DOMAIN idx /\ idx[i] # "D"
          THEN PathName(i) \o <<"\n">> ELSE << >>) \o NameOnlyFrom(idx, i + 1)

GitNameOnly(idx) == NameOnlyFrom(idx, 1)

\* lines 110-124: the value getNewCorpus returns for a listing
NewCorpusOf(stdout) ==
    LET testdata == SelectSeq(Split(stdout, "\n"), IsCorpusPath)
    IN  IF Len(testdata) # 1 THEN Undefined ELSE Some(testdata[1])

\* lines 151-154: what getRepositoryId does with a response
RepositoryIdOf(response) ==
    IF response.result = Undefined
    THEN [throws |-> TRUE, value |-> Undefined]        \* Error, line 152
    ELSE LET data == response.result[1].data
         IN  IF data = Undefined
             THEN [throws |-> TRUE, value |-> Undefined]    \* TypeError
             ELSE LET repository == data[1].repository
                  IN  IF repository = Undefined
                      THEN [throws |-> TRUE, value |-> Undefined]   \* TypeError
                      ELSE [throws |-> FALSE, value |-> repository[1].id]

\* line 79
BranchNameOf(pfx, pkg, func, id) ==
    pfx \o <<"/">> \o pkg \o <<"/">> \o func \o <<"/">> \o id

\* the ref name without its refs/heads/ qualifier
RefNameOf_Unqualified(name) == name

\* line 184
RefNameOf(name) == S_refsheads \o name

\* the stdout of git rev-parse used untrimmed
HeadRefOf_Untrimmed(stdout) == stdout

\* lines 157-160, on the stdout of `git rev-parse HEAD`
HeadRefOf(stdout) == Trim(stdout)

\* the path a file name printed by git names
PathIndex(name) == CHOOSE i \in 1..NPaths : PathName(i) = name

\* fs.unlink of path i: an added file is gone, a tracked one becomes a deletion
Unlinked(w, i) ==
    IF w[i] = "A" THEN [j \in DOMAIN w \ {i} |-> w[j]]
    ELSE [w EXCEPT ![i] = "D"]

OnDisk(w, i) == i \in DOMAIN w /\ w[i] # "D"

Ev(name, rc) == [ev |-> name, rc |-> rc]

-----------------------------------------------------------------------------
(* The run *)

Init ==
    /\ pc = "fuzzing"
    /\ worktree = NoChanges
    /\ index = NoChanges
    /\ head \in Commits
    /\ prefix \in Prefixes
    /\ exitCode = Undefined
    /\ corpus = Undefined
    /\ repoResponse = Undefined
    /\ repositoryId = Undefined
    /\ goListStdout = Undefined
    /\ packageName = Undefined
    /\ testFunc = Undefined
    /\ testCorpus = Undefined
    /\ branchName = Undefined
    /\ oid = Undefined
    /\ sent = << >>
    /\ publish = "none"
    /\ rerunSelector = Undefined
    /\ trace = << >>

\* the test of the exit code (line 38) left out
Fuzzing_NoExitCheck ==
    /\ pc = "fuzzing"
    /\ \E code \in {0, 1}, w \in Worktrees :
        /\ exitCode' = Some(code)
        /\ worktree' = w
        /\ trace' = Append(trace, Ev("go test -fuzz", code))
        /\ pc' = "gitAdd"
    /\ UNCHANGED <<index, head, prefix, corpus, repoResponse, repositoryId,
                   goListStdout, packageName, testFunc, testCorpus, branchName,
                   oid, sent, publish, rerunSelector>>

\* lines 24-53: the fuzz subprocess, its exit code ignored by exec, and the test of it
Fuzzing ==
    /\ pc = "fuzzing"
    /\ \E code \in {0, 1}, w \in Worktrees :
        /\ exitCode' = Some(code)
        /\ worktree' = w
        /\ trace' = Append(trace, Ev("go test -fuzz", code))
        /\ pc' = IF code = 0 THEN "done" ELSE "gitAdd"
    /\ UNCHANGED <<index, head, prefix, corpus, repoResponse, repositoryId,
                   goListStdout, packageName, testFunc, testCorpus, branchName,
                   oid, sent, publish, rerunSelector>>

\* git add . run with ignoreReturnCode, like the commands around it
GitAdd_IgnoreReturnCode ==
    /\ pc = "gitAdd"
    /\ \E rc \in {0, 128} :
        /\ trace' = Append(trace, Ev("git add", rc))
        /\ index' = IF rc = 0 THEN worktree ELSE index
        /\ pc' = "gitDiffQuiet"
    /\ UNCHANGED <<worktree, head, prefix, exitCode, corpus, repoResponse,
                   repositoryId, goListStdout, packageName, testFunc, testCorpus,
                   branchName, oid, sent, publish, rerunSelector>>

\* line 98: git add ., which throws on a non-zero exit
GitAdd ==
    /\ pc = "gitAdd"
    /\ \E rc \in {0, 128} :
        /\ trace' = Append(trace, Ev("git add", rc))
        /\ index' = IF rc = 0 THEN worktree ELSE index
        /\ pc' = IF rc = 0 THEN "gitDiffQuiet" ELSE "raised"
    /\ UNCHANGED <<worktree, head, prefix, exitCode, corpus, repoResponse,
                   repositoryId, goListStdout, packageName, testFunc, testCorpus,
                   branchName, oid, sent, publish, rerunSelector>>

\* lines 99-102 and 60-62: git diff --cached --exit-code --quiet, exit code ignored
GitDiffQuiet ==
    /\ pc = "gitDiffQuiet"
    /\ \E hasChange \in {IF index = NoChanges THEN 0 ELSE 1, 128} :
        /\ trace' = Append(trace, Ev("git diff --quiet", hasChange))
        /\ pc' = IF hasChange = 0 THEN "done" ELSE "gitDiffNames"
    /\ UNCHANGED <<worktree, index, head, prefix, exitCode, corpus, repoResponse,
                   repositoryId, goListStdout, packageName, testFunc, testCorpus,
                   branchName, oid, sent, publish, rerunSelector>>

\* lines 105-124 and 60-63: the listing, which throws on a non-zero exit, and the filter
GitDiffNames ==
    /\ pc = "gitDiffNames"
    /\ \E rc \in {0, 128} :
        /\ trace' = Append(trace, Ev("git diff --name-only", rc))
        /\ IF rc # 0
           THEN /\ pc' = "raised"
                /\ UNCHANGED corpus
           ELSE /\ corpus' = NewCorpusOf(GitNameOnly(index))
                /\ pc' = IF corpus' = Undefined THEN "done" ELSE "getRepositoryId"
    /\ UNCHANGED <<worktree, index, head, prefix, exitCode, repoResponse,
                   repositoryId, goListStdout, packageName, testFunc, testCorpus,
                   branchName, oid, sent, publish, rerunSelector>>

\* lines 71 and 128-155: the repository query; postJson may reject (network, HTTP status)
GetRepositoryId ==
    /\ pc = "getRepositoryId"
    /\ trace' = Append(trace, Ev("graphql repository", 0))
    /\ \/ /\ pc' = "raised"
          /\ UNCHANGED <<repoResponse, repositoryId>>
       \/ \E response \in RepoResponses :
          /\ repoResponse' = Some(response)
          /\ IF RepositoryIdOf(response).throws
             THEN /\ pc' = "raised"
                  /\ UNCHANGED repositoryId
             ELSE /\ repositoryId' = RepositoryIdOf(response).value
                  /\ pc' = "getPackageName"
    /\ UNCHANGED <<worktree, index, head, prefix, exitCode, corpus, goListStdout,
                   packageName, testFunc, testCorpus, branchName, oid, sent,
                   publish, rerunSelector>>

\* lines 75-79 and 162-166: go list, which throws on a non-zero exit, then the branch name
GetPackageName ==
    /\ pc = "getPackageName"
    /\ \E rc \in {0, 1}, stdout \in GoListOutputs :
        /\ trace' = Append(trace, Ev("go list", rc))
        /\ IF rc # 0
           THEN /\ pc' = "raised"
                /\ UNCHANGED <<goListStdout, packageName, testFunc, testCorpus, branchName>>
           ELSE LET segments == Split(corpus[1], "/")
                    n == Len(segments)
                IN  /\ goListStdout' = Some(stdout)
                    /\ packageName' = Some(Trim(stdout))
                    /\ testFunc' = Some(segments[n - 1])
                    /\ testCorpus' = Some(segments[n])
                    /\ branchName' = Some(BranchNameOf(prefix, Trim(stdout),
                                                       segments[n - 1], segments[n]))
                    /\ pc' = "getHeadRef"
    /\ UNCHANGED <<worktree, index, head, prefix, exitCode, corpus, repoResponse,
                   repositoryId, oid, sent, publish, rerunSelector>>

\* lines 80 and 157-160: git rev-parse HEAD, which throws on a non-zero exit
GetHeadRef ==
    /\ pc = "getHeadRef"
    /\ \E rc \in {0, 128} :
        /\ trace' = Append(trace, Ev("git rev-parse", rc))
        /\ oid' = IF rc = 0 THEN Some(HeadRefOf(head \o <<"\n">>)) ELSE oid
        /\ pc' = IF rc = 0 THEN "createBranch" ELSE "raised"
    /\ UNCHANGED <<worktree, index, head, prefix, exitCode, corpus, repoResponse,
                   repositoryId, goListStdout, packageName, testFunc, testCorpus,
                   branchName, sent, publish, rerunSelector>>

\* lines 81 and 168-193: the createRef mutation.  The remote creates the ref ("ok"),
\* answers with errors ("rejected": postJson still resolves), or postJson rejects
\* ("throw": network failure or HTTP status above 299)
CreateBranch ==
    /\ pc = "createBranch"
    /\ \E outcome \in {"ok", "rejected", "throw"} :
        /\ sent' = Append(sent, [repositoryId |-> repositoryId,
                                 name |-> RefNameOf(branchName[1]),
                                 oid |-> oid[1]])
        /\ trace' = Append(trace, Ev("graphql createRef", 0))
        /\ publish' = outcome
        /\ pc' = IF outcome = "throw" THEN "raised" ELSE "rerun"
    /\ UNCHANGED <<worktree, index, head, prefix, exitCode, corpus, repoResponse,
                   repositoryId, goListStdout, packageName, testFunc, testCorpus,
                   branchName, oid, rerunSelector>>

\* the re-run without ignoreReturnCode: the failing test rejects
Rerun_Throwing ==
    /\ pc = "rerun"
    /\ \E rc \in {0, 1} :
        /\ trace' = Append(trace, Ev("go test -run", rc))
        /\ rerunSelector' = Some(testFunc[1] \o <<"/">> \o testCorpus[1])
        /\ pc' = IF rc = 0 THEN "readFile" ELSE "raised"
    /\ UNCHANGED <<worktree, index, head, prefix, exitCode, corpus, repoResponse,
                   repositoryId, goListStdout, packageName, testFunc, testCorpus,
                   branchName, oid, sent, publish>>

\* line 83: the re-run of the failing test, exit code ignored
Rerun ==
    /\ pc = "rerun"
    /\ \E rc \in {0, 1} :
        /\ trace' = Append(trace, Ev("go test -run", rc))
        /\ rerunSelector' = Some(testFunc[1] \o <<"/">> \o testCorpus[1])
        /\ pc' = "readFile"
    /\ UNCHANGED <<worktree, index, head, prefix, exitCode, corpus, repoResponse,
                   repositoryId, goListStdout, packageName, testFunc, testCorpus,
                   branchName, oid, sent, publish>>

\* lines 85-86: the artifact is read; a missing file rejects
ReadFile ==
    /\ pc = "readFile"
    /\ pc' = IF OnDisk(worktree, PathIndex(corpus[1])) THEN "restore" ELSE "raised"
    /\ UNCHANGED <<worktree, index, head, prefix, exitCode, corpus, repoResponse,
                   repositoryId, goListStdout, packageName, testFunc, testCorpus,
                   branchName, oid, sent, publish, rerunSelector, trace>>

\* line 89: git restore --staged ., exit code ignored
GitRestore ==
    /\ pc = "restore"
    /\ \E rc \in {0, 128} :
        /\ trace' = Append(trace, Ev("git restore", rc))
        /\ index' = IF rc = 0 THEN NoChanges ELSE index
        /\ pc' = "unlink"
    /\ UNCHANGED <<worktree, head, prefix, exitCode, corpus, repoResponse,
                   repositoryId, goListStdout, packageName, testFunc, testCorpus,
                   branchName, oid, sent, publish, rerunSelector>>

\* line 90: the artifact is deleted; a missing file rejects
Unlink ==
    /\ pc = "unlink"
    /\ trace' = Append(trace, Ev("unlink", 0))
    /\ IF OnDisk(worktree, PathIndex(corpus[1]))
       THEN /\ worktree' = Unlinked(worktree, PathIndex(corpus[1]))
            /\ pc' = "done"
       ELSE /\ pc' = "raised"
            /\ UNCHANGED worktree
    /\ UNCHANGED <<index, head, prefix, exitCode, corpus, repoResponse,
                   repositoryId, goListStdout, packageName, testFunc, testCorpus,
                   branchName, oid, sent, publish, rerunSelector>>

Next ==
    \/ Fuzzing
    \/ GitAdd
    \/ GitDiffQuiet
    \/ GitDiffNames
    \/ GetRepositoryId
    \/ GetPackageName
    \/ GetHeadRef
    \/ CreateBranch
    \/ Rerun
    \/ ReadFile
    \/ GitRestore
    \/ Unlink

Spec == Init /\ [][Next]_vars

-----------------------------------------------------------------------------
(* What the claims speak about *)

\* path i follows the corpus convention .../testdata/fuzz/Fuzz*/<id>, read off its
\* directory segments
FollowsConvention(i) ==
    LET segs == PathSegs[i]
        n == Len(segs)
    IN  /\ n >= 4
        /\ segs[n - 3] = S_testdata
        /\ segs[n - 2] = S_fuzz
        /\ Len(segs[n - 1]) >= 4
        /\ \A k \in 1..4 : segs[n - 1][k] = S_Fuzz[k]

\* the staged files added relative to HEAD that follow the convention
AddedCorpus(idx) == {i \in DOMAIN idx : idx[i] = "A" /\ FollowsConvention(i)}

\* the paths of the staged-name listing that follow the convention
ListedCorpus(idx) == {i \in DOMAIN idx : idx[i] # "D" /\ FollowsConvention(i)}

LastSegs(i) == PathSegs[i][Len(PathSegs[i])]
ParentSegs(i) == PathSegs[i][Len(PathSegs[i]) - 1]

Positions(name) == {i \in 1..Len(trace) : trace[i].ev = name}
Failed(name) == {i \in Positions(name) : trace[i].rc # 0}

\* the listing has just been read and filtered: index is what it listed
JustListed ==
    /\ trace # << >>
    /\ trace[Len(trace)] = Ev("git diff --name-only", 0)

Ended == pc \in {"done", "raised"}

-----------------------------------------------------------------------------
(* C1 *)

\* C1: when publication fails (postJson rejects, or the remote answers with an
\* error) the cleanup still runs: once fuzz() has ended, nothing is staged and the
\* artifact is gone from disk.  Runs in which git restore itself failed are left
\* out, so that only the publish failure is at stake.
C1_CleanupSurvivesPublishFailure ==
    (Ended /\ publish \in {"rejected", "throw"} /\ Failed("git restore") = {})
        => /\ index = NoChanges
           /\ ~OnDisk(worktree, PathIndex(corpus[1]))

-----------------------------------------------------------------------------
(* C2 *)

\* C2: when the fuzz subprocess exits non-zero and two or more added files follow
\* the corpus convention, no createRef is sent, the index is clean again when
\* fuzz() returns, and every artifact is still on disk.
C2_AmbiguousStillUnstages ==
    (pc = "done" /\ exitCode = Some(1) /\ Positions("git diff --name-only") # {}
        /\ Cardinality(AddedCorpus(worktree)) >= 2)
        => /\ sent = << >>
           /\ Positions("graphql createRef") = {}
           /\ index = NoChanges
           /\ \A i \in AddedCorpus(worktree) : OnDisk(worktree, i)

-----------------------------------------------------------------------------
(* C4 *)

\* C4: when the fuzz subprocess exits 0, fuzz() returns normally and the fuzz
\* subprocess is the only thing the run ever started: no git command, no GraphQL
\* request.
C4_CleanRunTouchesNothing ==
    exitCode = Some(0)
        => /\ pc = "done"
           /\ trace = << Ev("go test -fuzz", 0) >>
           /\ sent = << >>
           /\ index = NoChanges

\* a clean exit over a dirty working tree
C4_Witness ==
    /\ exitCode = Some(0)
    /\ pc = "done"
    /\ AddedCorpus(worktree) # {}

-----------------------------------------------------------------------------
(* C5 *)

\* C5: getNewCorpus returns an artifact only when exactly one ADDED file (not a
\* modified, not a deleted one) follows the corpus convention; with zero or with
\* two or more such added files it returns undefined.
C5_ExactlyOneAddedFile ==
    JustListed
        => (corpus # Undefined <=> Cardinality(AddedCorpus(index)) = 1)

-----------------------------------------------------------------------------
(* C8 *)

\* the response carries a repository id
CarriesId(response) ==
    /\ response.result # Undefined
    /\ response.result[1].data # Undefined
    /\ response.result[1].data[1].repository # Undefined
    /\ response.result[1].data[1].repository[1].id # Undefined

\* C8: whenever the response to the repository query lacks the repository id, the
\* run aborts, and no createRef is ever sent with an undefined id.
C8_MissingIdAborts ==
    /\ (repoResponse # Undefined /\ ~CarriesId(repoResponse[1])) => pc = "raised"
    /\ \A k \in 1..Len(sent) : sent[k].repositoryId # Undefined

-----------------------------------------------------------------------------
(* C3 *)

\* C3: the commit id sent in createRef is read by git rev-parse HEAD before the
\* git add . of getNewCorpus: in every run the rev-parse comes before the staging.
C3_RevParseBeforeStaging ==
    \A i \in Positions("git rev-parse"), j \in Positions("git add") : i < j

\* C3, amended: git rev-parse HEAD runs after the git add . of getNewCorpus and
\* before the createRef request; no step of the run moves HEAD, so the oid sent is
\* the commit HEAD pointed at when the run started.
C3_OidIsHeadReadAfterStaging ==
    /\ \A i \in Positions("git rev-parse"), j \in Positions("git add") : j < i
    /\ \A k \in Positions("graphql createRef") :
          \E i \in Positions("git rev-parse") : i < k /\ trace[i].rc = 0
    /\ \A k \in 1..Len(sent) : sent[k].oid = head

C3_Witness ==
    /\ sent # << >>
    /\ Positions("git add") # {}
    /\ index # NoChanges

-----------------------------------------------------------------------------
(* C6 *)

-----------------------------------------------------------------------------
(* C7 *)

\* the import path `go list` printed, without its line end
PrintedPackage == SubSeq(goListStdout[1], 1, Len(goListStdout[1]) - 1)

\* C7: the ref name sent in createRef is "refs/heads/" followed by
\* <prefix>/<package>/<testFunc>/<corpusId>, with the configured prefix, the
\* package go list printed and the last two segments of the artifact's path; prefix
\* fuzz, package pkg and pkg/testdata/fuzz/FuzzParse/a1b2c3 give
\* refs/heads/fuzz/pkg/FuzzParse/a1b2c3.
C7_RefNameIsDetermined ==
    \A k \in 1..Len(sent) :
        LET i == PathIndex(corpus[1])
        IN  /\ sent[k].name = S_refsheads \o Join(<<prefix, PrintedPackage,
                                                     ParentSegs(i), LastSegs(i)>>, "/")
            /\ (prefix = S_fuzz /\ PrintedPackage = S_pkg /\ i = 3) =>
                  sent[k].name =
                      <<"r","e","f","s","/","h","e","a","d","s","/","f","u","z","z","/",
                        "p","k","g","/","F","u","z","z","P","a","r","s","e","/",
                        "a","1","b","2","c","3">>

C7_Witness ==
    /\ sent # << >>
    /\ prefix = S_fuzz
    /\ packageName = Some(S_pkg)
    /\ corpus = Some(PathName(3))

-----------------------------------------------------------------------------
(* C9 *)

\* C9: a non-zero exit of git add ., of the staged-name listing or of the cleanup
\* git restore --staged . aborts the run: nothing is started after the failed
\* command and fuzz() raises.
C9_EveryGitFailureAborts ==
    \A i \in Failed("git add") \cup Failed("git diff --name-only")
                \cup Failed("git restore") :
        i = Len(trace) /\ pc = "raised"

\* C9, amended: a non-zero exit of git add . or of the staged-name listing aborts
\* the run, nothing being started after the failed command; a non-zero exit of
\* the cleanup git restore --staged . is ignored, and the run goes on to delete the
\* artifact.
C9_DetectionFailureAborts ==
    /\ \A i \in Failed("git add") \cup Failed("git diff --name-only") :
          i = Len(trace) /\ pc = "raised"
    /\ \A i \in Failed("git restore") :
          IF i = Len(trace) THEN pc = "unlink"
          ELSE trace[i + 1] = Ev("unlink", 0) /\ pc = "done"

C9_Witness ==
    /\ Failed("git restore") # {}
    /\ pc = "done"
    /\ index # NoChanges

-----------------------------------------------------------------------------
(* C10 *)

\* the run ended with the four steps createRef, re-run, un-stage, delete, in this
\* order, the re-run selecting <testFunc>/<corpusId>
CleanupOrder ==
    LET n == Len(trace)
        i == PathIndex(corpus[1])
    IN  /\ n >= 4
        /\ trace[n - 3].ev = "graphql createRef"
        /\ trace[n - 2].ev = "go test -run"
        /\ trace[n - 1].ev = "git restore"
        /\ trace[n].ev = "unlink"
        /\ rerunSelector = Some(Join(<<ParentSegs(i), LastSegs(i)>>, "/"))

\* a re-run that has just ended, with whatever exit code, is followed by the
\* reading of the artifact and the cleanup
RerunNeverAborts ==
    \A i \in Positions("go test -run") : i = Len(trace) => pc \in {"readFile", "restore"}

====
